---- MODULE Spec2Model ----
(***************************************************************************)
(* Model of the negotiation core of agent-compute-marketplace:             *)
(*   agents/negotiation_engine.py  NegotiationEngine (run_loop, negotiate, *)
(*                                 finalize_negotiation)                   *)
(*   agents/buyer.py               BuyerAgent.respond and its fallback     *)
(*   agents/seller.py              SellerAgent pricing and counter logic   *)
(*                                                                         *)
(* Money.  The code computes with Python floats.  Here every amount is an  *)
(* integer number of 1/10000 dollar ("pips": 100 pips = 1 cent), and every *)
(* multiplication by a decimal factor yields the nearest pip (ties to      *)
(* even), as a float operation yields the nearest representable number.    *)
(* round(x, 2) rounds to the nearest cent (ties to even).                  *)
(*                                                                         *)
(* The oracle (the LLM behind call_llm_with_retry) is an unconstrained     *)
(* collaborator: each consultation either fails or yields any reply that   *)
(* passes the reply model's validation.                                    *)
(***************************************************************************)
EXTENDS Integers, Sequences, FiniteSets, TLC

VARIABLES
    api_key,    \* whether OPENAI_API_KEY is set (core/llm.py get_llm)
    quotes,     \* the Quote rows, by quote id
    sessions,   \* NegotiationEngine.negotiation_sessions, by quote id
    call,       \* the engine call in progress of each caller (its locals)
    buyerProbe, \* a BuyerAgent driven directly, with its last decision
    sellerProbe, \* SellerAgent.respond_to_counter_offer driven directly
    llmCall,    \* one consultation through call_llm_with_retry
    faults_left \* how many more failures the environment may inject

vars == <<api_key, quotes, sessions, call, buyerProbe, sellerProbe, llmCall,
         faults_left>>

-----------------------------------------------------------------------------
(* Bounds of the model *)

\* largest max_turns a caller passes to negotiate
MaxTurns == 2
\* number of decisions a directly driven BuyerAgent is asked for
MaxBuyerCalls == 5
\* completed rounds in the histories handed to a directly driven seller
MaxSellerRounds == 2
\* the largest max_retries a consultation of the oracle is started with
MaxRetriesArg == 2

-----------------------------------------------------------------------------
(* Values *)

\* Python's None where a price is expected (Optional[float])
None == -1

Min(a, b) == IF a <= b THEN a ELSE b
Max(a, b) == IF a >= b THEN a ELSE b

\* a / d rounded to the nearest integer, ties to even (d > 0)
RoundDiv(a, d) ==
    LET q == a \div d
        r == a % d
    IN  IF 2 * r < d THEN q
        ELSE IF 2 * r > d THEN q + 1
        ELSE IF q % 2 = 0 THEN q ELSE q + 1

\* x * (n / d) as one float operation: the nearest pip
Mul(x, n, d) == RoundDiv(x * n, d)

\* round(x, 2): nearest cent, ties to even
Round2(x) == RoundDiv(x, 100) * 100

-----------------------------------------------------------------------------
(* agents/seller.py: the pricing model *)

\* BASE_PRICES: hourly rate in pips, multipliers and thresholds in 1/100
BASE_PRICES ==
    [GPU |-> [base |-> 25000, demand_multiplier |-> 120, scarcity_threshold |-> 80],
     CPU |-> [base |-> 8000,  demand_multiplier |-> 110, scarcity_threshold |-> 90],
     TPU |-> [base |-> 60000, demand_multiplier |-> 130, scarcity_threshold |-> 70]]

\* MARKET_CONDITIONS, in 1/100
MARKET_CONDITIONS == [high_demand |-> 120, normal |-> 100, low_demand |-> 90]

\* SellerAgent.__init__ defaults, as the engine constructs it: SellerAgent()
SellerAgent == [strategy |-> "balanced", min_margin |-> 5, max_discount |-> 40,
                market_condition |-> "normal"]

\* get_market_multiplier: MARKET_CONDITIONS.get(self.market_condition, 1.0)
get_market_multiplier(seller) ==
    IF seller.market_condition \in DOMAIN MARKET_CONDITIONS
    THEN MARKET_CONDITIONS[seller.market_condition] ELSE 100

\* calculate_resource_scarcity's possible results, in 1/100: availability is
\* total + randint(-20%, +5%) capped at total, so scarcity lies in [0, 0.20];
\* 0.70 when the lookup fails or the type is unknown
calculate_resource_scarcity(resource_type) ==
    IF resource_type \in DOMAIN BASE_PRICES THEN {0, 20, 70} ELSE {70}

\* self._random.uniform(1.1, 1.2), in 1/100
negotiation_premium == {110, 120}

\* get_base_price for one draw of the scarcity and of the premium
get_base_price(seller, resource_type, duration_hours, scarcity, premium) ==
    LET resource_config == IF resource_type \in DOMAIN BASE_PRICES
                           THEN BASE_PRICES[resource_type] ELSE BASE_PRICES["CPU"]
        base_price == resource_config.base
        market_multiplier == get_market_multiplier(seller)
        scarcity_multiplier ==
            IF scarcity > resource_config.scarcity_threshold
            THEN 100 + (scarcity - resource_config.scarcity_threshold) * 2
            ELSE 100
        duration_discount == IF duration_hours >= 168 THEN 90
                             ELSE IF duration_hours >= 24 THEN 95 ELSE 100
        total_price ==
            Mul(Mul(Mul(Mul(base_price * duration_hours, market_multiplier, 100),
                        scarcity_multiplier, 100), duration_discount, 100),
                premium, 100)
        max_price == Mul(base_price * duration_hours, 15, 10)
    IN  Round2(Min(total_price, max_price))

\* every value get_base_price can return for this request
BasePrices(seller, resource_type, duration_hours) ==
    { get_base_price(seller, resource_type, duration_hours, sc, pr) :
        sc \in calculate_resource_scarcity(resource_type), pr \in negotiation_premium }

-----------------------------------------------------------------------------
(* core/llm_utils.py: what one consultation of the oracle can yield *)

\* call_llm_with_retry raised after its last attempt
OracleFailure == [ok |-> FALSE, action |-> "none", price |-> None]

\* prices the oracle may name, in pips: zero, one cent, sub-dollar and
\* dollar amounts, and amounts far above any budget of the model
OraclePrices == {0, 100, 8500, 9500, 12000, 2000000}

\* BuyerReply: action accept with no price, or counter_offer with a price
BuyerReply ==
    {[ok |-> TRUE, action |-> "accept", price |-> None]}
    \cup {[ok |-> TRUE, action |-> "counter_offer", price |-> p] : p \in OraclePrices}

\* SellerReply: any action; a price is required only for counter_offer
SellerReply ==
    {[ok |-> TRUE, action |-> a, price |-> None] : a \in {"accept", "reject"}}
    \cup {[ok |-> TRUE, action |-> a, price |-> p] :
            a \in {"accept", "counter_offer", "reject"}, p \in OraclePrices}

\* what one llm.ainvoke can bring: an exception, text that is no JSON and
\* no number, a bare number, or a JSON object with an action and a price
Contents ==
    {[kind |-> k, action |-> "none", price |-> None] : k \in {"error", "text"}}
    \cup {[kind |-> "number", action |-> "none", price |-> p] : p \in OraclePrices}
    \cup {[kind |-> "json", action |-> a, price |-> p] :
             a \in {"accept", "counter_offer", "reject", "hold"},
             p \in OraclePrices \cup {None}}

\* model_cls.model_validate_json(content): the validated reply, or
\* OracleFailure for a ValidationError
model_validate_json(model_cls, content) ==
    LET valid ==
          /\ content.kind = "json"
          /\ IF model_cls = "BuyerReply"
             THEN /\ content.action \in {"accept", "counter_offer"}
                  /\ content.action = "counter_offer" => content.price # None
                  /\ content.action = "accept" => content.price = None
             ELSE /\ content.action \in {"accept", "counter_offer", "reject"}
                  /\ content.action = "counter_offer" => content.price # None
    IN  IF valid THEN [ok |-> TRUE, action |-> content.action, price |-> content.price]
        ELSE OracleFailure

\* lines 41-81: one attempt, with the bare-number parse kept for SellerReply
Attempt(model_cls, content) ==
    LET result == model_validate_json(model_cls, content)
    IN  IF content.kind = "error" THEN OracleFailure
        ELSE IF result.ok THEN result
        ELSE IF model_cls = "SellerReply" /\ content.kind = "number"
        THEN [ok |-> TRUE, action |-> "counter_offer", price |-> content.price]
        ELSE OracleFailure

\* a retry test that allows one attempt too many
RetriesLeftOffByOne(attempt, max_retries) == attempt <= max_retries

\* line 87: if attempt < max_retries
RetriesLeft(attempt, max_retries) == attempt < max_retries

-----------------------------------------------------------------------------
(* agents/buyer.py *)

\* BuyerAgent.__init__: urgency in tenths, budget_flexibility = 0.25;
\* n is len(self.negotiation_history), last_offer is unset until the
\* strategic counter stores it
BuyerAgent(max_wtp, urgency) ==
    [max_wtp |-> max_wtp, urgency |-> urgency,
     effective_max |-> Mul(max_wtp, 40 + urgency, 40),
     n |-> 0, last_offer |-> None]

\* a late accept that is one decision early
LateAcceptFromThree(self, seller_price) ==
    self.n >= 3 /\ seller_price <= Mul(self.max_wtp, 95, 100)

\* respond's "accept within budget after multiple rounds":
\* len(self.negotiation_history) >= 4 and seller_price <= max_wtp * 0.95
LateAccept(self, seller_price) ==
    self.n >= 4 /\ seller_price <= Mul(self.max_wtp, 95, 100)

\* _should_accept_in_negotiation
should_accept_in_negotiation(self, seller_price) ==
    self.n >= 4 /\ seller_price <= Mul(self.max_wtp, 95, 100)

\* _generate_strategic_counter_offer: the counter it returns (and stores
\* in self.last_offer)
generate_strategic_counter_offer(self, seller_price) ==
    LET previous == IF self.last_offer # None THEN self.last_offer
                    ELSE Mul(seller_price, 8, 10)
        c0 == IF self.n = 0
              THEN Max(Mul(seller_price, 8, 10), Mul(self.max_wtp, 5, 10))
              ELSE previous + Mul(seller_price - previous, 5, 10)
        c1 == Mul(c0, 200 + self.urgency, 200)
        c2 == Min(c1, self.effective_max)
        c3 == Min(c2, seller_price - 100)
    IN  Round2(Max(100, c3))

\* the clamp respond applies to a counter: min(p, seller_price - 0.01),
\* then round(max(0.01, .), 2)
ClampBuyerCounter(p, seller_price) == Round2(Max(100, Min(p, seller_price - 100)))

\* a buyer that trusts the oracle's accept
ExceedsBudgetUnchecked(self, seller_price) == FALSE

\* the double-check on an oracle accept: seller_price > self.max_wtp
ExceedsBudget(self, seller_price) == seller_price > self.max_wtp

\* an accept that echoes the price it accepts
AcceptedResponsePriceEcho(seller_price) == seller_price

\* the "price" of an accept response: {"action": "accept", "price": None, ...}
AcceptedResponsePrice(seller_price) == None

\* BuyerAgent.respond(quote, history) for the oracle outcome o.  Yields the
\* response, the agent afterwards, and whether the call raised (a price of
\* None makes the first comparison raise TypeError)
respond(self0, seller_price, o) ==
    LET self == [self0 EXCEPT !.n = @ + 1]
        strategic == generate_strategic_counter_offer(self, seller_price)
        fallback(reason) ==
            [raised |-> FALSE, action |-> "counter_offer",
             price |-> ClampBuyerCounter(strategic, seller_price),
             reason |-> reason, agent |-> [self EXCEPT !.last_offer = strategic]]
        accept(reason) ==
            [raised |-> FALSE, action |-> "accept",
             price |-> AcceptedResponsePrice(seller_price),
             reason |-> reason, agent |-> self]
    IN  IF seller_price = None
        THEN [raised |-> TRUE, action |-> "none", price |-> None,
              reason |-> "TypeError", agent |-> self]
        ELSE IF seller_price <= Mul(self.max_wtp, 6, 10)
        THEN accept("early_accept")
        ELSE IF LateAccept(self, seller_price)
        THEN accept("late_accept")
        ELSE IF should_accept_in_negotiation(self, seller_price)
        THEN accept("acceptance_criteria")
        ELSE IF ~o.ok
        THEN fallback("deterministic")
        ELSE IF o.action = "accept"
        THEN IF ExceedsBudget(self, seller_price)
             THEN fallback("override")
             ELSE accept("llm_accept")
        ELSE [raised |-> FALSE, action |-> "counter_offer",
              price |-> ClampBuyerCounter(o.price, seller_price),
              reason |-> "llm_counter", agent |-> self]

-----------------------------------------------------------------------------
(* agents/seller.py: respond_to_counter_offer *)

\* the reversed(history) search: the price of the latest seller entry that
\* carries a response, None when there is none
LastSellerPrice(history) ==
    LET idx == {i \in 1..Len(history) :
                  history[i].role = "seller" /\ history[i].response}
    IN  IF idx = {} THEN None
        ELSE history[CHOOSE i \in idx : \A j \in idx : j <= i].price

\* base_price * (1 + self.min_margin)
MinAcceptable(seller, base_price) == Mul(base_price, 100 + seller.min_margin, 100)

\* the "middle ground" price computed before any decision is returned
NewPrice(seller, counter_price, history, base_price) ==
    LET last_seller_price == LastSellerPrice(history)
    IN  IF Len(history) > 0 /\ last_seller_price # None /\ last_seller_price # 0
        THEN Max(last_seller_price - Mul(last_seller_price - counter_price, 5, 10),
                 MinAcceptable(seller, base_price))
        ELSE Mul(base_price, 115, 100)

\* a fallback that gives the negotiation up
MiddleGroundActionGivesUp == "reject"

\* the action of the deterministic fallback: the final return of
\* respond_to_counter_offer
MiddleGroundAction == "counter_offer"

\* respond_to_counter_offer for one draw base_price of get_base_price and
\* the oracle outcome o (consulted only when an llm can be built)
respond_to_counter_offer(seller, counter_price, history, base_price, o, llm) ==
    LET min_acceptable == MinAcceptable(seller, base_price)
        negotiation_round == Len(history)
        new_price == NewPrice(seller, counter_price, history, base_price)
    IN  IF counter_price >= min_acceptable
        THEN [action |-> "accept", price |-> counter_price, reason |-> "good_margin"]
        ELSE IF negotiation_round >= 3 /\ counter_price >= Mul(min_acceptable, 95, 100)
        THEN [action |-> "accept", price |-> counter_price, reason |-> "close_enough"]
        ELSE IF counter_price >= Mul(base_price, 6, 10) /\ llm /\ o.ok
        THEN IF o.action = "counter_offer" /\ o.price # None /\ o.price # 0
             THEN [action |-> o.action, price |-> Min(o.price, new_price),
                   reason |-> "llm_capped"]
             ELSE [action |-> o.action, price |-> o.price, reason |-> "llm"]
        ELSE [action |-> MiddleGroundAction, price |-> Round2(new_price),
              reason |-> "middle_ground"]

\* generate_quote: the opening price, from the oracle's reply when there is
\* one (result.price, whatever the action), else from get_base_price
generate_quote(seller, resource_type, duration_hours, o, llm) ==
    IF llm /\ o.ok THEN {o.price}
    ELSE BasePrices(seller, resource_type, duration_hours)

-----------------------------------------------------------------------------
(* agents/negotiation_engine.py: state *)

QuoteIds == {1, 2}
Callers == {1, 2}

\* what the callers of the model ask for
Requests == {<<"CPU", 1>>}
Budgets == {0, 5000, 10000, 1000000}
Urgencies == {0, 7}

\* the oracle's replies during engine runs
EnginePrices == {9500}
EngineBuyerReply ==
    {r \in BuyerReply : r.action = "counter_offer" => r.price \in EnginePrices}
EngineSellerReply ==
    {r \in SellerReply : /\ r.price \in EnginePrices \cup {None}
                         /\ r.action # "counter_offer" => r.price = None}

\* a dict after d[k] = v
\* a registry that keeps one session for all ids
PutShared(d, k, v) == [x \in DOMAIN d \cup {k} |-> v]

Put(d, k, v) == [x \in DOMAIN d \cup {k} |-> IF x = k THEN v ELSE d[x]]

\* a Quote row as create_quote stores it (db/models.py defaults)
Quote(resource_type, duration_hours, buyer_max_price) ==
    [resource_type |-> resource_type, duration_hours |-> duration_hours,
     buyer_max_price |-> buyer_max_price, price |-> 0, status |-> "pending",
     negotiation_log |-> <<>>, transactions |-> <<>>]

\* NegotiationState
NegotiationState(state, round_number, last_offer, negotiation_history) ==
    [state |-> state, round_number |-> round_number, last_offer |-> last_offer,
     negotiation_history |-> negotiation_history]

\* one entry of negotiation_log / negotiation_history.  response tells
\* whether action and price sit under the entry's "response" key; oracle
\* tells whether an oracle reply decided the entry
Entry(role, action, price, turn, response, reason, oracle) ==
    [role |-> role, action |-> action, price |-> price, turn |-> turn,
     response |-> response, reason |-> reason, oracle |-> oracle]

\* the locals of an engine call; pc = "idle" when none is in progress, and
\* then op, quote_id and result describe the call that returned last
\* the committed rows and the session registry at one moment
Snapshot(qs, ss) == [quotes |-> qs, sessions |-> ss]

NoSnapshot == Snapshot(<< >>, << >>)

\* ghost fields of a frame: fault is what raised in the call, before is the
\* snapshot when the call was entered, round the snapshot when its current
\* round began; before and round are dropped when a call returns normally
IdleCall ==
    [pc |-> "idle", op |-> "none", quote_id |-> 0, result |-> "none",
     fault |-> "none", before |-> NoSnapshot, round |-> NoSnapshot,
     max_turns |-> 0, turns |-> 0, current_price |-> None,
     counter_price |-> None, buyer |-> BuyerAgent(0, 0),
     negotiation_log |-> <<>>, ended_by |-> "none",
     buyer_calls |-> 0, seller_calls |-> 0, priced_first |-> FALSE,
     summary |-> [status |-> "none", state |-> "none"]]

\* the caller's frame once a call that is not in its loop has returned
Returned(c, op, q, result) ==
    [IdleCall EXCEPT !.op = op, !.quote_id = q, !.result = result]

\* lines 119-121: the frame of a call that initial pricing ended
PricingFailed(c, op, q, fault) ==
    [Returned(c, op, q, "RuntimeError") EXCEPT
        !.fault = fault, !.before = Snapshot(quotes, sessions),
        !.round = Snapshot(quotes, sessions)]

NoProbe == [phase |-> "off"]

Init ==
    /\ api_key \in BOOLEAN
    /\ \E rq \in Requests, w \in Budgets : quotes = (1 :> Quote(rq[1], rq[2], w))
    /\ sessions = << >>
    /\ call = [c \in Callers |-> IdleCall]
    /\ buyerProbe = NoProbe
    /\ sellerProbe = NoProbe
    /\ llmCall = NoProbe
    /\ faults_left = 0

-----------------------------------------------------------------------------
(* NegotiationEngine.run_loop *)

\* the opening prices generate_quote can return, each with whether the
\* oracle's reply decided it
OpeningQuotes(qt) ==
    {<<p, TRUE>> : p \in UNION {generate_quote(SellerAgent, qt.resource_type,
                                   qt.duration_hours, o, api_key) :
                                o \in {r \in EngineSellerReply : api_key}}}
    \cup {<<p, FALSE>> : p \in generate_quote(SellerAgent, qt.resource_type,
                                   qt.duration_hours, OracleFailure, api_key)}

\* a pricing that stores the price and forgets the status
PricedQuoteStillPending(qt, entry) ==
    [qt EXCEPT !.price = entry.price, !.negotiation_log = Append(@, entry)]

\* the quote after run_loop priced it
PricedQuote(qt, entry) ==
    [qt EXCEPT !.price = entry.price, !.status = "priced",
               !.negotiation_log = Append(@, entry)]

\* the session run_loop registers
PricingSession(entry) ==
    NegotiationState("pricing", 1, entry.price, <<entry>>)

PricingEntry(op) ==
    Entry("seller", "initial_quote", op[1], 0, FALSE, "initial_quote", op[2])

\* line 60: if quote.status != QuoteStatus.pending
NotPending(status) == status # "pending"

\* the failures the environment may inject at this point: an injected
\* seller policy that raises, a db.commit that raises
FaultChoices(kinds) == IF faults_left > 0 THEN kinds \cup {"none"} ELSE {"none"}
Spent(fault) == faults_left' = IF fault = "none" THEN faults_left ELSE faults_left - 1

\* lines 63-109, the try block of run_loop for the opening quote op: the
\* session is registered (line 72) before generate_quote is called (83),
\* and completed (104-105) before db.commit (108); the rows of the quotes
\* change only when the commit succeeds
InitialPricing(q, op, fault) ==
    IF fault = "generate_quote"
    THEN [ok |-> FALSE, quotes |-> quotes,
          sessions |-> Put(sessions, q, NegotiationState("pricing", 1, None, <<>>))]
    ELSE IF fault = "commit"
    THEN [ok |-> FALSE, quotes |-> quotes,
          sessions |-> Put(sessions, q, PricingSession(PricingEntry(op)))]
    ELSE [ok |-> TRUE,
          quotes |-> [quotes EXCEPT ![q] = PricedQuote(@, PricingEntry(op))],
          sessions |-> Put(sessions, q, PricingSession(PricingEntry(op)))]

run_loop(c, q) ==
    /\ call[c].pc = "idle"
    /\ IF q \notin DOMAIN quotes \/ NotPending(quotes[q].status)
       THEN /\ call' = [call EXCEPT ![c] = Returned(c, "run_loop", q, "ValueError")]
            /\ UNCHANGED <<quotes, sessions, faults_left>>
       ELSE \E op \in OpeningQuotes(quotes[q]),
               fault \in FaultChoices({"generate_quote", "commit"}) :
            LET priced == InitialPricing(q, op, fault)
            IN  /\ Spent(fault)
                /\ quotes' = priced.quotes
                /\ sessions' = priced.sessions
                /\ call' = [call EXCEPT ![c] =
                      IF priced.ok THEN Returned(c, "run_loop", q, "ok")
                      ELSE PricingFailed(c, "run_loop", q, fault)]
    /\ UNCHANGED <<api_key, buyerProbe, sellerProbe, llmCall>>

-----------------------------------------------------------------------------
(* NegotiationEngine.negotiate *)

\* a loop that tests its counter one turn too late
LoopContinuesOffByOne(turns, max_turns) == turns <= max_turns

\* the loop condition: while turns < max_turns
LoopContinues(turns, max_turns) == turns < max_turns

\* a status check that lets an accepted quote through
NotPricedLenient(status) == status \notin {"priced", "accepted"}

\* line 141: if quote.status != QuoteStatus.priced
NotPriced(status) == status # "priced"

\* lines 141-167, on the quotes qs and sessions ss (after the initial
\* pricing, if the quote was pending): the status check, the BuyerAgent
\* (whose constructor calls get_llm, which raises without an API key), the
\* session looked up or created, and the locals of the loop
NegotiateStart(c, q, max_turns, urgency, qs, ss, priced_first) ==
    /\ quotes' = qs
    /\ IF NotPriced(qs[q].status)
       THEN /\ sessions' = ss
            /\ call' = [call EXCEPT ![c] = Returned(c, "negotiate", q, "ValueError")]
       ELSE IF ~api_key
       THEN /\ sessions' = ss
            /\ call' = [call EXCEPT ![c] = Returned(c, "negotiate", q, "RuntimeError")]
       ELSE /\ sessions' = IF q \in DOMAIN ss THEN ss
                           ELSE Put(ss, q, NegotiationState("negotiating", 1,
                                                            qs[q].price, <<>>))
            /\ call' = [call EXCEPT ![c] =
                 [IdleCall EXCEPT !.pc = "loop", !.op = "negotiate", !.quote_id = q,
                                  !.before = Snapshot(quotes, sessions),
                                  !.round = Snapshot(qs, sessions'),
                                  !.max_turns = max_turns,
                                  !.priced_first = priced_first,
                                  !.current_price = qs[q].price,
                                  !.buyer = BuyerAgent(qs[q].buyer_max_price, urgency),
                                  !.negotiation_log = qs[q].negotiation_log]]

\* lines 133-167: the call up to the loop
negotiate(c, q, max_turns, urgency) ==
    /\ call[c].pc = "idle"
    /\ IF q \notin DOMAIN quotes
       THEN /\ call' = [call EXCEPT ![c] = Returned(c, "negotiate", q, "ValueError")]
            /\ UNCHANGED <<quotes, sessions, faults_left>>
       ELSE IF quotes[q].status = "pending"
       THEN \E op \in OpeningQuotes(quotes[q]),
               fault \in FaultChoices({"generate_quote", "commit"}) :
            LET priced == InitialPricing(q, op, fault)
            IN  /\ Spent(fault)
                /\ IF priced.ok
                   THEN NegotiateStart(c, q, max_turns, urgency,
                                       priced.quotes, priced.sessions, TRUE)
                   ELSE /\ quotes' = priced.quotes
                        /\ sessions' = priced.sessions
                        /\ call' = [call EXCEPT ![c] =
                              PricingFailed(c, "negotiate", q, fault)]
       ELSE /\ NegotiateStart(c, q, max_turns, urgency, quotes, sessions, FALSE)
            /\ UNCHANGED faults_left
    /\ UNCHANGED <<api_key, buyerProbe, sellerProbe, llmCall>>

\* lines 335-337: the frame of a call the except clause ends
Failed(f, fault) == [f EXCEPT !.pc = "idle", !.result = "RuntimeError",
                              !.priced_first = FALSE, !.fault = fault]

\* an engine that saves the transcript as soon as the buyer has countered
AfterBuyerCounterSaved(qs, q, log) == [qs EXCEPT ![q].negotiation_log = log]

\* lines 241-262: between the buyer's counter and the seller's reply the
\* quote is neither assigned nor committed
AfterBuyerCounter(qs, q, log) == qs

\* whether the oracle's reply decided a buyer response
BuyerByOracle(r) == r.reason \in {"llm_accept", "llm_counter", "override"}

\* lines 169-251: the head of one turn and the buyer's decision
BuyerTurn(c) ==
    LET f == call[c]
        q == f.quote_id
        turns == f.turns + 1
    IN  /\ f.pc = "loop"
        /\ LoopContinues(f.turns, f.max_turns)
        /\ \E o \in {OracleFailure} \cup EngineBuyerReply,
              fault \in FaultChoices({"commit"}) :
           LET r == respond(f.buyer, f.current_price, o)
               buyer_entry == Entry("buyer", r.action, r.price, turns, TRUE,
                                    r.reason, BuyerByOracle(r))
               log == Append(f.negotiation_log, buyer_entry)
               g == [f EXCEPT !.turns = turns, !.buyer = r.agent,
                              !.buyer_calls = @ + 1]
           IN  IF r.raised
               THEN /\ fault = "none"
                    /\ sessions' = [sessions EXCEPT ![q].round_number = turns + 1]
                    /\ call' = [call EXCEPT ![c] = Failed(g, "respond")]
                    /\ UNCHANGED <<quotes, faults_left>>
               ELSE IF r.action = "accept"
               THEN /\ Spent(fault)
                    /\ sessions' = [sessions EXCEPT
                          ![q].round_number = turns + 1,
                          ![q].negotiation_history = Append(@, buyer_entry),
                          ![q].state = "accepted"]
                    /\ IF fault = "commit"
                       THEN /\ UNCHANGED quotes
                            /\ call' = [call EXCEPT ![c] =
                                  Failed([g EXCEPT !.negotiation_log = log], fault)]
                       ELSE /\ quotes' = [quotes EXCEPT ![q].status = "accepted",
                                                        ![q].negotiation_log = log]
                            /\ call' = [call EXCEPT ![c] =
                                  [g EXCEPT !.pc = "exit", !.negotiation_log = log,
                                            !.ended_by = "buyer_accept"]]
               ELSE /\ fault = "none"
                    /\ UNCHANGED faults_left
                    /\ sessions' = [sessions EXCEPT
                          ![q].round_number = turns + 1,
                          ![q].negotiation_history = Append(@, buyer_entry)]
                    /\ call' = [call EXCEPT ![c] =
                                  [g EXCEPT !.pc = "seller", !.negotiation_log = log,
                                            !.counter_price = r.price]]
                    /\ quotes' = AfterBuyerCounter(quotes, q, log)
        /\ UNCHANGED <<api_key, buyerProbe, sellerProbe, llmCall>>

\* whether the oracle's reply decided a seller response
SellerByOracle(r) == r.reason \in {"llm", "llm_capped"}

\* an engine that takes the accepted price from the seller's response
AcceptedPriceFromResponse(counter_price, seller_response) == seller_response.price

\* line 276: the price of a quote the seller accepted: quote.price = counter_price
AcceptedPrice(counter_price, seller_response) == counter_price

\* lines 253-316: the seller's decision on the buyer's counter
SellerTurn(c) ==
    LET f == call[c]
        q == f.quote_id
    IN  /\ f.pc = "seller"
        /\ \E base_price \in BasePrices(SellerAgent, quotes[q].resource_type,
                                       quotes[q].duration_hours),
              o \in {OracleFailure} \cup EngineSellerReply,
              fault \in FaultChoices({"respond_to_counter_offer", "commit"}) :
           LET r == respond_to_counter_offer(SellerAgent, f.counter_price,
                        sessions[q].negotiation_history, base_price, o, api_key)
               seller_entry == Entry("seller", r.action, r.price, f.turns, TRUE,
                                     r.reason, SellerByOracle(r))
               log == Append(f.negotiation_log, seller_entry)
               g == [f EXCEPT !.negotiation_log = log, !.seller_calls = @ + 1]
               committed(qs) == IF fault = "commit" THEN quotes ELSE qs
               next(frame) == IF fault = "commit" THEN Failed(g, fault) ELSE frame
           IN  IF fault = "respond_to_counter_offer"
               THEN /\ Spent(fault)
                    /\ call' = [call EXCEPT ![c] =
                                  Failed([f EXCEPT !.seller_calls = @ + 1], fault)]
                    /\ UNCHANGED <<quotes, sessions>>
               ELSE IF r.action = "accept"
               THEN /\ Spent(fault)
                    /\ quotes' = committed(
                                   [quotes EXCEPT ![q].price = AcceptedPrice(f.counter_price, r),
                                                  ![q].status = "accepted",
                                                  ![q].negotiation_log = log])
                    /\ sessions' = [sessions EXCEPT
                          ![q].negotiation_history = Append(@, seller_entry),
                          ![q].state = "accepted",
                          ![q].last_offer = f.counter_price]
                    /\ call' = [call EXCEPT ![c] =
                                  next([g EXCEPT !.pc = "exit",
                                                 !.ended_by = "seller_accept"])]
               ELSE IF r.action = "counter_offer"
               THEN /\ Spent(fault)
                    /\ quotes' = committed([quotes EXCEPT ![q].price = r.price])
                    /\ sessions' = [sessions EXCEPT
                          ![q].negotiation_history = Append(@, seller_entry),
                          ![q].last_offer = r.price]
                    /\ call' = [call EXCEPT ![c] =
                                  next([g EXCEPT !.pc = "loop",
                                                 !.current_price = r.price,
                                                 !.round = Snapshot(quotes', sessions')])]
               ELSE /\ Spent(fault)
                    /\ quotes' = committed([quotes EXCEPT ![q].status = "rejected",
                                                          ![q].negotiation_log = log])
                    /\ sessions' = [sessions EXCEPT
                          ![q].negotiation_history = Append(@, seller_entry),
                          ![q].state = "rejected"]
                    /\ call' = [call EXCEPT ![c] =
                                  next([g EXCEPT !.pc = "exit",
                                                 !.ended_by = "seller_reject"])]
        /\ UNCHANGED <<api_key, buyerProbe, sellerProbe, llmCall>>

\* a cap check that misses the exact exhaustion of the turns
MaxTurnsReachedStrict(turns, max_turns, status) == turns > max_turns /\ status = "priced"

\* line 319: if turns >= max_turns and quote.status == QuoteStatus.priced
MaxTurnsReached(turns, max_turns, status) == turns >= max_turns /\ status = "priced"

\* lines 318-333: after the loop
NegotiateReturn(c) ==
    LET f == call[c]
        q == f.quote_id
    IN  /\ f.pc \in {"loop", "exit"}
        /\ f.pc = "loop" => ~LoopContinues(f.turns, f.max_turns)
        /\ IF MaxTurnsReached(f.turns, f.max_turns, quotes[q].status)
           THEN \E fault \in FaultChoices({"commit"}) :
                /\ Spent(fault)
                /\ sessions' = [sessions EXCEPT ![q].state = "max_turns_reached"]
                /\ IF fault = "commit"
                   THEN /\ UNCHANGED quotes
                        /\ call' = [call EXCEPT ![c] = Failed(f, fault)]
                   ELSE /\ quotes' = [quotes EXCEPT
                                          ![q].status = "rejected",
                                          ![q].negotiation_log = f.negotiation_log]
                        /\ call' = [call EXCEPT ![c] =
                              [f EXCEPT !.pc = "idle", !.result = "ok",
                                        !.priced_first = FALSE,
                                        !.before = NoSnapshot,
                                        !.round = NoSnapshot,
                                        !.ended_by = "max_turns"]]
           ELSE /\ call' = [call EXCEPT ![c] = [f EXCEPT !.pc = "idle", !.result = "ok",
                                                          !.priced_first = FALSE,
                                                          !.before = NoSnapshot,
                                                          !.round = NoSnapshot]]
                /\ UNCHANGED <<quotes, sessions, faults_left>>
        /\ UNCHANGED <<api_key, buyerProbe, sellerProbe, llmCall>>

-----------------------------------------------------------------------------
(* NegotiationEngine.finalize_negotiation *)

\* a finalize that also empties the history of the session
FinalizedCleared(session) ==
    [session EXCEPT !.state = "finalized", !.negotiation_history = <<>>]

\* a finalize that only marks sessions in a terminal state
FinalizedIfTerminal(session) ==
    IF session.state \in {"accepted", "rejected", "max_turns_reached"}
    THEN [session EXCEPT !.state = "finalized"]
    ELSE session

\* the session as finalize_negotiation leaves it
Finalized(session) == [session EXCEPT !.state = "finalized"]

\* the dict finalize_negotiation returns
FinalizeSummary(q) == [status |-> "finalized", state |-> "completed"]

finalize_negotiation(c, q) ==
    /\ call[c].pc = "idle"
    /\ sessions' = IF q \in DOMAIN sessions
                   THEN [sessions EXCEPT ![q] = Finalized(@)] ELSE sessions
    /\ call' = [call EXCEPT ![c] =
                  [Returned(c, "finalize_negotiation", q, "ok")
                      EXCEPT !.summary = FinalizeSummary(q)]]
    /\ UNCHANGED <<api_key, quotes, buyerProbe, sellerProbe, llmCall, faults_left>>

-----------------------------------------------------------------------------
(* api/routes/quotes.py: create_payment_intent *)

\* the payment of an accepted quote, which the demo flow marks paid at
\* once; taken between engine calls
PaymentProviders == {"stripe", "paypal"}

\* the Transaction rows one successful payment request adds: with stripe,
\* StripeService.create_payment_intent adds a pending row
\* (payments/stripe_service.py 105-113) and the route adds a succeeded row
\* for the same intent; with paypal the route adds one succeeded row
PaymentTransactions(provider) ==
    IF provider = "stripe"
    THEN <<[provider |-> "stripe", status |-> "pending"],
           [provider |-> "stripe", status |-> "succeeded"]>>
    ELSE <<[provider |-> "paypal", status |-> "succeeded"]>>

\* refused with 409 when the quote has a transaction, with 400 when it is
\* not accepted; a quote without a price makes the provider call fail
create_payment_intent(q, provider) ==
    /\ \A c \in Callers : call[c].pc = "idle"
    /\ q \in DOMAIN quotes
    /\ quotes[q].transactions = << >>
    /\ quotes[q].status = "accepted"
    /\ quotes[q].price # None
    /\ quotes' = [quotes EXCEPT ![q].status = "paid",
                                ![q].transactions = @ \o PaymentTransactions(provider)]
    /\ UNCHANGED <<api_key, sessions, call, buyerProbe, sellerProbe, llmCall, faults_left>>

-----------------------------------------------------------------------------
(* The engine, one caller at a time *)

Next ==
    \E q \in {1} :
        \/ run_loop(1, q)
        \/ \E max_turns \in 0..MaxTurns, urgency \in Urgencies :
              negotiate(1, q, max_turns, urgency)
        \/ BuyerTurn(1)
        \/ SellerTurn(1)
        \/ NegotiateReturn(1)
        \/ finalize_negotiation(1, q)
        \/ \E provider \in PaymentProviders : create_payment_intent(q, provider)

Spec == Init /\ [][Next]_vars

\* The engine with an injected seller and a session whose commit can raise:
\* up to MaxFaults of the calls to generate_quote, respond_to_counter_offer
\* and db.commit raise.
MaxFaults == 1

InitFaults ==
    /\ api_key = TRUE
    /\ \E rq \in Requests, w \in {5000, 10000} : quotes = (1 :> Quote(rq[1], rq[2], w))
    /\ sessions = << >>
    /\ call = [c \in Callers |-> IdleCall]
    /\ buyerProbe = NoProbe
    /\ sellerProbe = NoProbe
    /\ llmCall = NoProbe
    /\ faults_left = MaxFaults

NextFaults ==
    \E q \in {1} :
        \/ run_loop(1, q)
        \/ \E max_turns \in {0, 1} : negotiate(1, q, max_turns, 7)
        \/ BuyerTurn(1)
        \/ SellerTurn(1)
        \/ NegotiateReturn(1)
        \/ finalize_negotiation(1, q)

SpecFaults == InitFaults /\ [][NextFaults]_vars

\* Two requests served by the one engine of api/routes/quotes.py: the calls
\* of the two callers interleave wherever negotiate awaits a policy.
InitShared ==
    /\ api_key = TRUE
    /\ \E rq \in Requests, w \in {10000} : quotes = (1 :> Quote(rq[1], rq[2], w))
    /\ sessions = << >>
    /\ call = [c \in Callers |-> IdleCall]
    /\ buyerProbe = NoProbe
    /\ sellerProbe = NoProbe
    /\ llmCall = NoProbe
    /\ faults_left = 0

NextShared ==
    \E c \in Callers, q \in {1} :
        \/ run_loop(c, q)
        \/ negotiate(c, q, 1, 7)
        \/ BuyerTurn(c)
        \/ SellerTurn(c)
        \/ NegotiateReturn(c)

SpecShared == InitShared /\ [][NextShared]_vars

\* Two quotes on the one engine: caller c works on quote c, and the
\* operations on the two quotes interleave.  Quote 1 is negotiated for one
\* turn, quote 2 with max_turns = 0.
InitPair ==
    /\ api_key = TRUE
    /\ \E rq \in Requests :
          quotes = (1 :> Quote(rq[1], rq[2], 10000)) @@ (2 :> Quote(rq[1], rq[2], 5000))
    /\ sessions = << >>
    /\ call = [c \in Callers |-> IdleCall]
    /\ buyerProbe = NoProbe
    /\ sellerProbe = NoProbe
    /\ llmCall = NoProbe
    /\ faults_left = 0

NextPair ==
    \E c \in Callers :
        \/ run_loop(c, c)
        \/ negotiate(c, c, 2 - c, 7)
        \/ BuyerTurn(c)
        \/ SellerTurn(c)
        \/ NegotiateReturn(c)
        \/ finalize_negotiation(c, c)

SpecPair == InitPair /\ [][NextPair]_vars

-----------------------------------------------------------------------------
(* api/routes/quotes.py: auto_negotiate_quote, the payment step *)

\* where the payment block of auto_negotiate_quote can raise: in the
\* provider call, in create_reservation (no available resource), in the
\* final db.commit()
PaymentFailures == {"none", "provider", "reservation", "commit"}

\* the status of the quote object the route returns: quote.status = paid is
\* assigned before create_reservation and the commit, and the handler of
\* the block ("Keep quote as accepted even if payment fails") is a bare pass
ReturnedStatus(failure) ==
    IF failure \in {"none", "reservation", "commit"} THEN "paid" ELSE "accepted"

\* the rows left in the database by a payment block that raised: the route's
\* own changes are never committed; StripeService's pending row is, when its
\* self.db.commit() takes effect (with a synchronous Session; under the
\* AsyncSession adapter the call is a coroutine nobody awaits)
FailedPaymentTransactions(provider, failure, service_commits) ==
    IF provider = "stripe" /\ failure # "provider" /\ service_commits
    THEN <<[provider |-> "stripe", status |-> "pending"]>>
    ELSE << >>

\* the payment block, run in the request whose negotiate call has just
\* returned an accepted quote; summary.status of the frame is the status of
\* the quote the route returns.  A quote without a price makes the provider
\* call raise.
auto_negotiate_payment(c, q, provider, failure, service_commits) ==
    /\ call[c].pc = "idle" /\ call[c].op = "negotiate" /\ call[c].result = "ok"
    /\ call[c].quote_id = q
    /\ quotes[q].status = "accepted"
    /\ quotes[q].price = None => failure = "provider"
    /\ quotes' =
          IF failure = "none"
          THEN [quotes EXCEPT ![q].status = "paid",
                              ![q].transactions = @ \o PaymentTransactions(provider)]
          ELSE [quotes EXCEPT ![q].transactions =
                   @ \o FailedPaymentTransactions(provider, failure, service_commits)]
    /\ call' = [call EXCEPT ![c] =
                  [Returned(c, "auto_negotiate", q, "ok") EXCEPT
                      !.fault = failure,
                      !.summary = [status |-> ReturnedStatus(failure),
                                   state |-> "none"]]]
    /\ UNCHANGED <<api_key, sessions, buyerProbe, sellerProbe, llmCall, faults_left>>

\* auto_negotiate_quote on quote 1: pricing, negotiate(max_turns=3,
\* urgency=0.7), then the payment block
AutoMaxTurns == 3

InitAuto ==
    /\ api_key = TRUE
    /\ \E rq \in Requests, w \in {5000, 10000} : quotes = (1 :> Quote(rq[1], rq[2], w))
    /\ sessions = << >>
    /\ call = [c \in Callers |-> IdleCall]
    /\ buyerProbe = NoProbe
    /\ sellerProbe = NoProbe
    /\ llmCall = NoProbe
    /\ faults_left = 0

NextAuto ==
    \E q \in {1} :
        \/ run_loop(1, q)
        \/ negotiate(1, q, AutoMaxTurns, 7)
        \/ BuyerTurn(1)
        \/ SellerTurn(1)
        \/ NegotiateReturn(1)
        \/ \E provider \in PaymentProviders, failure \in PaymentFailures,
               service_commits \in BOOLEAN :
              auto_negotiate_payment(1, q, provider, failure, service_commits)

SpecAuto == InitAuto /\ [][NextAuto]_vars

-----------------------------------------------------------------------------
(* The policies driven directly, on inputs the engine need not produce *)

\* budgets, urgencies and seller prices a BuyerAgent is driven with
ProbeBudgets == {0, 100, 10000}
ProbeUrgencies == {0, 7, 10}
ProbeSellerPrices ==
    {0, 50, 100, 150, 200, 5900, 6000, 6100, 9400, 9500, 9600, 10000, 10100,
     12000, 2000000}

\* the engine part of the state while a policy is driven directly
EngineUnused ==
    /\ api_key = TRUE
    /\ quotes = << >>
    /\ sessions = << >>
    /\ call = [c \in Callers |-> IdleCall]
    /\ faults_left = 0

InitBuyer ==
    /\ EngineUnused
    /\ sellerProbe = NoProbe
    /\ llmCall = NoProbe
    /\ \E w \in ProbeBudgets, u \in ProbeUrgencies :
         buyerProbe = [phase |-> "new", agent |-> BuyerAgent(w, u),
                       seller_price |-> 0, oracle |-> OracleFailure,
                       before |-> BuyerAgent(w, u),
                       response |-> [action |-> "none", price |-> None,
                                     reason |-> "none"]]

\* one call of BuyerAgent.respond({"price": seller_price}, history)
BuyerRespond ==
    /\ buyerProbe.agent.n < MaxBuyerCalls
    /\ \E seller_price \in ProbeSellerPrices, o \in {OracleFailure} \cup BuyerReply :
         LET r == respond(buyerProbe.agent, seller_price, o)
         IN  buyerProbe' = [phase |-> "decided", agent |-> r.agent,
                            seller_price |-> seller_price, oracle |-> o,
                            before |-> buyerProbe.agent,
                            response |-> [action |-> r.action, price |-> r.price,
                                          reason |-> r.reason]]
    /\ UNCHANGED <<api_key, quotes, sessions, call, sellerProbe, llmCall, faults_left>>

SpecBuyer == InitBuyer /\ [][BuyerRespond]_vars

\* histories as the engine builds them: the opening quote (when run_loop
\* registered the session), then k completed rounds in which the seller
\* countered at price p, then the buyer's counter being answered
SampleHistory(opening, k, p, counter_price) ==
    LET round(i) == <<Entry("buyer", "counter_offer", counter_price, i, TRUE,
                            "deterministic", FALSE),
                      Entry("seller", "counter_offer", p, i, TRUE,
                            "middle_ground", FALSE)>>
        rounds[i \in 0..k] == IF i = 0 THEN << >> ELSE rounds[i - 1] \o round(i)
    IN  (IF opening THEN <<PricingEntry(<<p, FALSE>>)>> ELSE << >>)
        \o rounds[k]
        \o <<Entry("buyer", "counter_offer", counter_price, k + 1, TRUE,
                   "deterministic", FALSE)>>

\* buyer counters and earlier seller prices a seller is driven with
ProbeCounterPrices == {100, 5000, 8000, 8800, 9000, 9200, 9500, 9700, 10000, 12000}
ProbeLastPrices == {0, 9200, 10120, 11040}

InitSeller ==
    /\ EngineUnused
    /\ buyerProbe = NoProbe
    /\ llmCall = NoProbe
    /\ sellerProbe = [phase |-> "new", counter_price |-> 0, history |-> << >>,
                      base_price |-> 0, oracle |-> OracleFailure, llm |-> TRUE,
                      response |-> [action |-> "none", price |-> None,
                                    reason |-> "none"]]

\* one call of respond_to_counter_offer(counter_price, original_quote, history)
SellerRespond ==
    /\ sellerProbe.phase = "new"
    /\ \E counter_price \in ProbeCounterPrices,
          rq \in Requests,
          opening \in BOOLEAN, k \in 0..MaxSellerRounds, p \in ProbeLastPrices,
          o \in {OracleFailure} \cup SellerReply, llm \in BOOLEAN :
         \E base_price \in BasePrices(SellerAgent, rq[1], rq[2]),
            history \in {<< >>, SampleHistory(opening, k, p, counter_price)} :
           sellerProbe' =
             [phase |-> "decided", counter_price |-> counter_price,
              history |-> history, base_price |-> base_price, oracle |-> o,
              llm |-> llm,
              response |-> respond_to_counter_offer(SellerAgent, counter_price,
                                history, base_price, o, llm)]
    /\ UNCHANGED <<api_key, quotes, sessions, call, buyerProbe, llmCall, faults_left>>

SpecSeller == InitSeller /\ [][SellerRespond]_vars

\* call_llm_with_retry(messages, model_cls, llm, max_retries) at the head of
\* its loop
InitRetry ==
    /\ EngineUnused
    /\ buyerProbe = NoProbe
    /\ sellerProbe = NoProbe
    /\ \E model_cls \in {"BuyerReply", "SellerReply"}, max_retries \in 0..MaxRetriesArg :
         llmCall = [phase |-> "running", model_cls |-> model_cls,
                    max_retries |-> max_retries, attempt |-> 0,
                    invocations |-> 0, failures |-> 0, reminders |-> 0,
                    result |-> OracleFailure]

\* one pass of the loop "for attempt in range(max_retries + 1)"
call_llm_with_retry ==
    /\ llmCall.phase = "running"
    /\ llmCall.attempt \in 0..llmCall.max_retries
    /\ \E content \in Contents :
         LET result == Attempt(llmCall.model_cls, content)
             invoked == [llmCall EXCEPT !.invocations = @ + 1]
         IN  llmCall' =
               IF result.ok
               THEN [invoked EXCEPT !.phase = "returned", !.result = result]
               ELSE IF RetriesLeft(llmCall.attempt, llmCall.max_retries)
               THEN [invoked EXCEPT !.failures = @ + 1, !.reminders = @ + 1,
                                    !.attempt = @ + 1]
               ELSE [invoked EXCEPT !.failures = @ + 1, !.phase = "raised"]
    /\ UNCHANGED <<api_key, quotes, sessions, call, buyerProbe, sellerProbe,
                   faults_left>>

SpecRetry == InitRetry /\ [][call_llm_with_retry]_vars

-----------------------------------------------------------------------------
(* Claims *)

InCall(c) == call[c].pc # "idle"
ReturnedOk(c) == call[c].op = "negotiate" /\ call[c].pc = "idle" /\ call[c].result = "ok"

\* some step of the negotiate call in progress
NegotiateStep(c) == BuyerTurn(c) \/ SellerTurn(c) \/ NegotiateReturn(c)

\* C1: one call to negotiate with max_turns = N asks the buyer for at most N
\* decisions and the seller for at most N, whatever the oracle and the
\* policies answer; the engine's own counter turns never passes N, and a call
\* in progress can always take its next step, so it returns after at most N
\* turns.
C1_TurnCap ==
    \A c \in Callers :
        call[c].op = "negotiate" =>
            /\ call[c].turns <= call[c].max_turns
            /\ call[c].buyer_calls <= call[c].max_turns
            /\ call[c].seller_calls <= call[c].max_turns
            /\ call[c].buyer_calls = call[c].turns
            /\ InCall(c) => ENABLED NegotiateStep(c)

\* a negotiation of two turns that no decision ended: the seller countered
\* every time and the buyer never accepted
C1_Witness ==
    /\ ReturnedOk(1)
    /\ call[1].max_turns = 2
    /\ call[1].buyer_calls = 2
    /\ call[1].seller_calls = 2
    /\ call[1].ended_by = "max_turns"

\* what holds of the quote and the session when caller c's negotiate has
\* returned normally
TerminalOutcome(c) ==
            LET q == call[c].quote_id
            IN  /\ quotes[q].status \in {"accepted", "rejected"}
                /\ call[c].ended_by \in {"buyer_accept", "seller_accept",
                                         "seller_reject", "max_turns"}
                /\ call[c].ended_by \in {"buyer_accept", "seller_accept"}
                      => quotes[q].status = "accepted" /\ sessions[q].state = "accepted"
                /\ call[c].ended_by = "seller_reject"
                      => quotes[q].status = "rejected" /\ sessions[q].state = "rejected"
                /\ call[c].ended_by = "max_turns"
                      => /\ quotes[q].status = "rejected"
                         /\ sessions[q].state = "max_turns_reached"
                         /\ call[c].turns = call[c].max_turns

\* C2: when negotiate returns normally the quote is accepted or rejected and
\* never still priced: accepted after a buyer or a seller accept, rejected
\* after a seller reject, and rejected with the session in max_turns_reached
\* when max_turns turns brought no terminal decision.  The property is of
\* the step in which negotiate returns: a later payment moves the quote on
\* to paid.
C2_TerminalStatus ==
    [][\A c \in Callers :
          (call[c].pc # "idle" /\ ReturnedOk(c)') => TerminalOutcome(c)']_vars

\* the turns ran out and the quote was forced to rejected
C2_Witness ==
    /\ ReturnedOk(1)
    /\ call[1].ended_by = "max_turns"
    /\ call[1].max_turns = 2
    /\ quotes[1].status = "rejected"
    /\ sessions[1].state = "max_turns_reached"

\* C3: ceiling invariant.  Whenever BuyerAgent.respond returns accept, the
\* seller's price is at most max_wtp, on the early, the late and the
\* oracle-authorized path; and when the oracle answers accept for a price
\* above max_wtp the decision returned is a counter_offer.
C3_Ceiling ==
    buyerProbe.phase = "decided" =>
        /\ buyerProbe.response.action = "accept"
              => buyerProbe.seller_price <= buyerProbe.agent.max_wtp
        /\ (/\ buyerProbe.oracle.ok
            /\ buyerProbe.oracle.action = "accept"
            /\ buyerProbe.seller_price > buyerProbe.agent.max_wtp)
              => buyerProbe.response.action = "counter_offer"

\* the oracle said accept for a price above the budget and was overridden
C3_Witness ==
    /\ buyerProbe.phase = "decided"
    /\ buyerProbe.oracle.ok
    /\ buyerProbe.oracle.action = "accept"
    /\ buyerProbe.seller_price > buyerProbe.agent.max_wtp
    /\ buyerProbe.agent.max_wtp > 0
    /\ buyerProbe.response.reason = "override"

\* C4: floor invariant.  Whenever respond_to_counter_offer returns accept,
\* the counter it accepts is at least base_price * (1 + min_margin), on the
\* immediate path, after several rounds, and when the oracle returns accept.
C4_Floor ==
    (sellerProbe.phase = "decided" /\ sellerProbe.response.action = "accept")
        => sellerProbe.counter_price
              >= MinAcceptable(SellerAgent, sellerProbe.base_price)

\* C5: whenever a negotiation ends accepted, the final quote price is at
\* most the buyer's effective_max, whether the buyer accepted the seller's
\* price or the seller accepted a counter of the buyer, whatever the oracle
\* proposed.
C5_WithinEffectiveMax ==
    \A c \in Callers :
        (ReturnedOk(c) /\ quotes[call[c].quote_id].status = "accepted")
            => quotes[call[c].quote_id].price <= call[c].buyer.effective_max

\* C6: no-equal-counter rule.  In the history of a session, which opens
\* with the seller's quote and then alternates buyer and seller, every
\* counter_offer of the buyer is strictly below the seller price before it
\* and every counter_offer of the seller is strictly above the buyer's
\* counter before it.
C6_NoEqualCounter ==
    \A q \in DOMAIN sessions :
        LET h == sessions[q].negotiation_history
        IN  \A i \in 2..Len(h) :
                h[i].action = "counter_offer" =>
                    IF h[i].role = "buyer"
                    THEN h[i - 1].role = "seller" /\ h[i].price < h[i - 1].price
                    ELSE h[i - 1].role = "buyer" /\ h[i].price > h[i - 1].price

\* the history holds no entry an oracle reply decided
FallbackAlone(h) == \A i \in 1..Len(h) : ~h[i].oracle

\* the gap of the round whose buyer entry is h[i]: the seller's standing
\* offer (the opening quote in round 1) minus the buyer's counter to it
Gap(h, i) == h[i - 1].price - h[i].price

\* C7: convergence.  In a negotiation whose offers all come from the
\* deterministic fallback, the gap between the seller's offer and the
\* buyer's offer does not grow from one round to the next, starting from
\* the seller's opening quote.
C7_Convergence ==
    \A q \in DOMAIN sessions :
        LET h == sessions[q].negotiation_history
        IN  FallbackAlone(h) =>
                \A i \in 2..Len(h) :
                    (/\ i + 2 <= Len(h)
                     /\ h[i].role = "buyer" /\ h[i].action = "counter_offer"
                     /\ h[i + 2].role = "buyer" /\ h[i + 2].action = "counter_offer")
                        => Gap(h, i + 2) <= Gap(h, i)

\* the seller's most recent price among the first n entries of a log, the
\* opening quote included
SellerOffer(log, n) ==
    LET idx == {i \in 1..n : log[i].role = "seller"}
    IN  log[CHOOSE i \in idx : \A j \in idx : j <= i].price

\* C8: final price on acceptance.  When the buyer accepts, the price of the
\* accepted quote is the seller's most recent price (the opening quote if
\* the seller made no counter); when the seller accepts, it is exactly the
\* buyer's counter of that round.
C8_FinalPrice ==
    \A q \in DOMAIN quotes :
        quotes[q].status = "accepted" =>
            LET log == quotes[q].negotiation_log
                n == Len(log)
            IN  /\ n >= 2
                /\ log[n].action = "accept"
                /\ IF log[n].role = "buyer"
                   THEN quotes[q].price = SellerOffer(log, n - 1)
                   ELSE /\ log[n - 1].role = "buyer"
                        /\ log[n - 1].action = "counter_offer"
                        /\ quotes[q].price = log[n - 1].price

\* the seller accepted on the oracle's word, which named no price, and the
\* quote carries the buyer's counter
C8_Witness ==
    LET log == quotes[1].negotiation_log
    IN  /\ quotes[1].status = "accepted"
        /\ Len(log) >= 3
        /\ log[Len(log)].role = "seller"
        /\ log[Len(log)].price = None
        /\ quotes[1].price = log[Len(log) - 1].price
        /\ quotes[1].price > 0

\* C9: finalize is idempotent.  Every call of finalize_negotiation returns
\* success with the same summary as the call before it, leaves round_number,
\* last_offer and negotiation_history of the session unchanged and creates no
\* session; for an id with no session or a session already finalized it
\* changes no session at all.
C9_FinalizeIdempotent ==
    [][\A q \in QuoteIds :
         finalize_negotiation(1, q) =>
            /\ call'[1].result = "ok"
            /\ call'[1].summary = FinalizeSummary(q)
            /\ (call[1].op = "finalize_negotiation" /\ call[1].quote_id = q)
                  => call'[1].summary = call[1].summary
            /\ DOMAIN sessions' = DOMAIN sessions
            /\ quotes' = quotes
            /\ q \in DOMAIN sessions =>
                  /\ sessions'[q].round_number = sessions[q].round_number
                  /\ sessions'[q].last_offer = sessions[q].last_offer
                  /\ sessions'[q].negotiation_history = sessions[q].negotiation_history
            /\ (q \notin DOMAIN sessions \/ sessions[q].state = "finalized")
                  => sessions' = sessions]_vars

\* finalize was called a second time on a session that went through a
\* negotiation, and the session kept what it had
C9_Witness ==
    /\ call[1].op = "finalize_negotiation"
    /\ call[1].result = "ok"
    /\ 1 \in DOMAIN sessions
    /\ sessions[1].state = "finalized"
    /\ Len(sessions[1].negotiation_history) >= 3
    /\ sessions[1].round_number >= 2

\* C10 as stated: finalize does not move a session that is still in pricing
\* or negotiating to finalized; a session reaches finalized only from
\* accepted, rejected or max_turns_reached.
C10_OnlyFromTerminal ==
    [][\A q \in DOMAIN sessions :
         (q \in DOMAIN sessions' /\ sessions[q].state \in {"pricing", "negotiating"})
            => sessions'[q].state # "finalized"]_vars

\* C10: a session reaches finalized only through finalize_negotiation, which
\* marks an existing session finalized whatever its state, pricing and
\* negotiating included, and creates no session.
C10_FinalizeFromAnyState ==
    [][\A q \in QuoteIds :
         /\ (/\ q \in DOMAIN sessions' /\ sessions'[q].state = "finalized"
             /\ ~(q \in DOMAIN sessions /\ sessions[q].state = "finalized"))
               => q \in DOMAIN sessions /\ finalize_negotiation(1, q)
         /\ (finalize_negotiation(1, q) /\ q \in DOMAIN sessions)
               => sessions'[q].state = "finalized"]_vars

\* a session finalized while its quote is still priced: run_loop left it in
\* pricing and no negotiation ran
C10_Witness ==
    /\ 1 \in DOMAIN sessions
    /\ sessions[1].state = "finalized"
    /\ quotes[1].status = "priced"
    /\ Len(sessions[1].negotiation_history) = 1

\* the states after which the spec calls a session immutable
TerminalStates == {"accepted", "rejected", "max_turns_reached", "finalized"}

\* C11: terminal immutability.  Once the state of a session is accepted,
\* rejected, max_turns_reached or finalized, no step of a later run_loop or
\* negotiate call changes its state, round_number, last_offer or
\* negotiation_history; only finalize_negotiation may still mark it
\* finalized.
C11_TerminalImmutable ==
    [][\A q \in DOMAIN sessions :
         sessions[q].state \in TerminalStates =>
            /\ q \in DOMAIN sessions'
            /\ \/ sessions'[q] = sessions[q]
               \/ \E c \in Callers : finalize_negotiation(c, q)]_vars

\* C14: an oracle failure is never a hard failure.  When no entry of the
\* session was decided by an oracle reply (the oracle was unavailable or
\* failed on every call), run_loop and negotiate do not end in a
\* RuntimeError: they return normally, or refuse a quote in the wrong
\* status.
C14_OracleFailureRecovered ==
    \A c \in Callers :
        LET q == call[c].quote_id
        IN  (/\ call[c].pc = "idle"
             /\ call[c].op \in {"run_loop", "negotiate"}
             /\ q \in DOMAIN sessions
             /\ FallbackAlone(sessions[q].negotiation_history))
                => call[c].result \in {"ok", "ValueError"}

\* C19: after run_loop returns successfully the quote is priced, its price
\* is a number greater than 0, the log holds exactly one entry, of role
\* seller, and the price of that entry is the price of the quote, whatever
\* the oracle answered.
C19_PricedPositive ==
    \A c \in Callers :
        (call[c].pc = "idle" /\ call[c].op = "run_loop" /\ call[c].result = "ok")
            => LET qt == quotes[call[c].quote_id]
               IN  /\ qt.status = "priced"
                   /\ qt.price # None /\ qt.price > 0
                   /\ Len(qt.negotiation_log) = 1
                   /\ qt.negotiation_log[1].role = "seller"
                   /\ qt.negotiation_log[1].price = qt.price

\* C20: every value BuyerAgent.respond returns is a record whose action is
\* accept or counter_offer and whose price is null exactly when the action
\* is accept; every counter_offer carries a price of at least one cent.
C20_StructuredResponse ==
    buyerProbe.phase = "decided" =>
        /\ buyerProbe.response.action \in {"accept", "counter_offer"}
        /\ buyerProbe.response.price = None <=> buyerProbe.response.action = "accept"
        /\ buyerProbe.response.action = "counter_offer"
              => buyerProbe.response.price >= 100

\* the oracle's accept within budget came back as an accept with no price
C20_Witness ==
    /\ buyerProbe.phase = "decided"
    /\ buyerProbe.response.reason = "llm_accept"
    /\ buyerProbe.response.action = "accept"
    /\ buyerProbe.response.price = None
    /\ buyerProbe.seller_price > 0

\* C12: an engine operation on a quote in the wrong status fails with a
\* ValueError before changing anything: run_loop on a quote that is not
\* pending, and negotiate on a quote that is neither pending nor priced,
\* leave every quote (status, price, log) and the session registry as they
\* were.
C12_WrongStatusRefused ==
    [][\A q \in DOMAIN quotes :
         /\ (run_loop(1, q) /\ quotes[q].status # "pending")
               => /\ call'[1].pc = "idle" /\ call'[1].result = "ValueError"
                  /\ quotes' = quotes /\ sessions' = sessions
         /\ (/\ \E max_turns \in 0..MaxTurns, urgency \in Urgencies :
                   negotiate(1, q, max_turns, urgency)
             /\ quotes[q].status \notin {"pending", "priced"})
               => /\ call'[1].pc = "idle" /\ call'[1].result = "ValueError"
                  /\ quotes' = quotes /\ sessions' = sessions]_vars

\* negotiate was refused on a paid quote, whose session is as the
\* negotiation left it
C12_Witness ==
    /\ call[1].op = "negotiate"
    /\ call[1].result = "ValueError"
    /\ quotes[1].status = "paid"
    /\ 1 \in DOMAIN sessions
    /\ sessions[1].state = "accepted"

\* a step of negotiate requested on quote q while it is pending
NegotiateOnPending(q) ==
    /\ q \in DOMAIN quotes
    /\ quotes[q].status = "pending"
    /\ \E max_turns \in 0..MaxTurns, urgency \in Urgencies :
          negotiate(1, q, max_turns, urgency)

\* C13 as stated: negotiate requested on a pending quote is refused at once
\* with an invalid-state error and changes nothing: the quote stays pending
\* with its price and log, and no session is created.
C13_PendingRefused ==
    [][\A q \in QuoteIds :
         NegotiateOnPending(q) =>
            /\ call'[1].pc = "idle" /\ call'[1].result = "ValueError"
            /\ quotes' = quotes /\ sessions' = sessions]_vars

\* C13: negotiate requested on a pending quote is not refused: it first
\* prices the quote as run_loop does (status priced, the opening quote as
\* price and as the one entry of the log, a session registered in pricing
\* with that entry) and then goes on as a negotiation of a priced quote,
\* which enters its loop, or fails with a RuntimeError when no buyer can be
\* built.
C13_PendingPricedFirst ==
    [][\A q \in QuoteIds :
         NegotiateOnPending(q) =>
            /\ call'[1].result # "ValueError"
            /\ quotes'[q].status = "priced"
            /\ Len(quotes'[q].negotiation_log) = 1
            /\ quotes'[q].negotiation_log[1].action = "initial_quote"
            /\ quotes'[q].negotiation_log[1].price = quotes'[q].price
            /\ q \in DOMAIN sessions'
            /\ sessions'[q] = PricingSession(quotes'[q].negotiation_log[1])
            /\ \/ call'[1].pc = "loop" /\ call'[1].priced_first
               \/ /\ call'[1].pc = "idle" /\ call'[1].result = "RuntimeError"
                  /\ ~api_key]_vars

\* a negotiation that priced its pending quote itself has reached the
\* seller's decision of its first turn
C13_Witness ==
    /\ call[1].op = "negotiate"
    /\ call[1].priced_first
    /\ call[1].pc = "seller"
    /\ call[1].turns = 1
    /\ quotes[1].status = "priced"
    /\ Len(sessions[1].negotiation_history) = 2

\* C15: bounded oracle retry.  One consultation invokes the oracle at most
\* max_retries + 1 times; it returns on the first valid reply, every attempt
\* before it having failed; when every attempt failed it raises after
\* attempt max_retries + 1, and each policy then decides by its fallback.
C15_BoundedRetry ==
    llmCall.phase # "off" =>
        /\ llmCall.invocations <= llmCall.max_retries + 1
        /\ llmCall.phase = "running"
              => /\ llmCall.failures = llmCall.invocations
                 /\ llmCall.invocations = llmCall.attempt
                 /\ llmCall.attempt <= llmCall.max_retries
        /\ llmCall.phase = "returned"
              => /\ llmCall.result.ok
                 /\ llmCall.invocations = llmCall.failures + 1
                 /\ llmCall.result \in
                       (IF llmCall.model_cls = "BuyerReply" THEN BuyerReply
                        ELSE SellerReply)
        /\ llmCall.phase = "raised"
              => /\ llmCall.invocations = llmCall.max_retries + 1
                 /\ llmCall.failures = llmCall.invocations
                 /\ llmCall.result = OracleFailure
                 /\ respond(BuyerAgent(10000, 7), 9600, llmCall.result).reason
                       = "deterministic"
                 /\ respond_to_counter_offer(SellerAgent, 5900, << >>, 8800,
                                             llmCall.result, TRUE).reason
                       = "middle_ground"
                 /\ generate_quote(SellerAgent, "CPU", 1, llmCall.result, TRUE)
                       = BasePrices(SellerAgent, "CPU", 1)

\* with the default max_retries = 2 all three attempts failed and the
\* consultation raised
C15_Witness ==
    /\ llmCall.phase = "raised"
    /\ llmCall.max_retries = 2
    /\ llmCall.invocations = 3
    /\ llmCall.reminders = 2

\* a call of caller c that ended in a RuntimeError because of the given fault
FailedWith(c, faults) ==
    /\ call[c].pc = "idle"
    /\ call[c].result = "RuntimeError"
    /\ call[c].fault \in faults

\* C16: when a policy call raises in the middle of negotiate, negotiate fails
\* with a RuntimeError and the session's negotiation_history, round_number,
\* last_offer and state and the quote's price, status and log equal their
\* values at the end of the last fully completed round.
C16_PolicyFailureAtomic ==
    \A c \in Callers :
        FailedWith(c, {"respond", "respond_to_counter_offer"})
            => Snapshot(quotes, sessions) = call[c].round

\* C17: when db.commit raises during run_loop or negotiate, the call fails
\* and the in-memory session (state, round_number, last_offer,
\* negotiation_history) is exactly what it was before the call.
C17_CommitFailureLeavesSession ==
    \A c \in Callers :
        FailedWith(c, {"commit"}) => sessions = call[c].before.sessions

\* C18: when seller.generate_quote raises, run_loop and negotiate on a
\* pending quote fail with a RuntimeError, the quote stays pending with
\* unchanged price and log, and the session registry is unchanged, so no
\* session for the quote is registered or listed as active.
C18_PricingFailureLeavesNothing ==
    \A c \in Callers :
        FailedWith(c, {"generate_quote"})
            => /\ quotes = call[c].before.quotes
               /\ quotes[call[c].quote_id].status = "pending"
               /\ sessions = call[c].before.sessions
               /\ call[c].quote_id \notin DOMAIN sessions

\* C21: when the oracle proposes counter_offer with a price p in answer to
\* the seller's price s, the counter the buyer returns is strictly below s
\* and does not exceed the buyer's effective_max.
C21_OracleCounterClamped ==
    (buyerProbe.phase = "decided" /\ buyerProbe.response.reason = "llm_counter")
        => /\ buyerProbe.response.price < buyerProbe.seller_price
           /\ buyerProbe.response.price <= buyerProbe.agent.effective_max

\* C22: the deterministic strategic counter, which the agent stores in
\* last_offer, is strictly below the seller's price and at most max_wtp,
\* for every seller price, budget, urgency and round.
C22_StrategicCounterCapped ==
    (buyerProbe.phase = "decided"
        /\ buyerProbe.response.reason \in {"deterministic", "override"})
        => /\ buyerProbe.agent.last_offer < buyerProbe.seller_price
           /\ buyerProbe.agent.last_offer <= buyerProbe.agent.max_wtp

\* C23: every counter_offer returned by respond_to_counter_offer, from the
\* oracle or from the deterministic fallback, has a price strictly above
\* the buyer's counter it answers and not below the margin floor
\* base_cost * (1 + min_margin).
C23_SellerCounterBounds ==
    (sellerProbe.phase = "decided" /\ sellerProbe.response.action = "counter_offer")
        => /\ sellerProbe.response.price > sellerProbe.counter_price
           /\ sellerProbe.response.price
                 >= MinAcceptable(SellerAgent, sellerProbe.base_price)

\* the last entry of a transcript is a reject the oracle decided
EndsWithOracleReject(log) ==
    /\ log # << >>
    /\ log[Len(log)].role = "seller"
    /\ log[Len(log)].action = "reject"
    /\ log[Len(log)].oracle

\* C24: the deterministic fallback never selects reject.  Every reject in a
\* session's history is a seller's reply that the oracle decided; a
\* negotiation that ended by a seller reject ends with such an entry; and
\* when no entry of the transcript was decided by the oracle, a quote that
\* negotiate left rejected was rejected by exhaustion of max_turns.
C24_RejectOnlyByOracle ==
    /\ \A q \in DOMAIN sessions :
          LET h == sessions[q].negotiation_history
          IN  \A i \in 1..Len(h) :
                  h[i].action = "reject" => h[i].role = "seller" /\ h[i].oracle
    /\ \A c \in Callers :
          ReturnedOk(c) =>
              /\ call[c].ended_by = "seller_reject"
                    => EndsWithOracleReject(call[c].negotiation_log)
              /\ (quotes[call[c].quote_id].status = "rejected"
                     /\ FallbackAlone(call[c].negotiation_log))
                    => call[c].ended_by = "max_turns"

\* with the oracle failing on every call, buyer and seller exchanged
\* counters until the turns ran out and the quote was rejected
C24_Witness ==
    /\ ReturnedOk(1)
    /\ quotes[1].status = "rejected"
    /\ FallbackAlone(call[1].negotiation_log)
    /\ call[1].seller_calls >= 1
    /\ call[1].ended_by = "max_turns"

\* C25: every counter_offer price the buyer or the seller emits is rounded
\* to 2 decimal places and is at least 0.01, whatever price the oracle
\* proposed.  Checked of the seller (C20 covers the buyer): the price of a
\* counter_offer is a whole number of cents, one cent or more.
C25_CounterRoundedPositive ==
    (sellerProbe.phase = "decided" /\ sellerProbe.response.action = "counter_offer")
        => /\ sellerProbe.response.price >= 100
           /\ sellerProbe.response.price % 100 = 0

\* s is a prefix of t
IsPrefix(s, t) == Len(s) <= Len(t) /\ \A i \in 1..Len(s) : s[i] = t[i]

\* C26: the transcript is append-only.  In every step of an engine
\* operation the negotiation_history of each registered session and the
\* negotiation_log of each quote are an unchanged prefix of what they are
\* after the step.
C26_AppendOnly ==
    [][(\A q \in DOMAIN sessions :
           /\ q \in DOMAIN sessions'
           /\ IsPrefix(sessions[q].negotiation_history,
                       sessions'[q].negotiation_history))
       /\ (\A k \in DOMAIN quotes :
              IsPrefix(quotes[k].negotiation_log, quotes'[k].negotiation_log))]_vars

\* C27: access to one session is serialized.  When two calls of negotiate
\* for one quote run on the shared engine their turns do not interleave:
\* every buyer counter in the session's history is followed by the seller's
\* reply to it, never by an entry of the other call, and the two calls do
\* not both bring the quote to a terminal status.
C27_SessionSerialized ==
    /\ \A q \in DOMAIN sessions :
          LET h == sessions[q].negotiation_history
          IN  \A i \in 1..(Len(h) - 1) :
                  (h[i].role = "buyer" /\ h[i].action = "counter_offer")
                      => h[i + 1].role = "seller"
    /\ \A c, d \in Callers :
          (c # d /\ ReturnedOk(c) /\ ReturnedOk(d)
                /\ call[c].quote_id = call[d].quote_id)
              => call[c].ended_by = "none" \/ call[d].ended_by = "none"

\* the session of quote k, or "none" when none is registered
SessionOf(ss, k) == IF k \in DOMAIN ss THEN ss[k] ELSE "none"

\* what quote 2 and its session can be when only run_loop, negotiate with
\* max_turns = 0 and finalize_negotiation for quote 2 have run, in any order
AloneOutcomes ==
    LET q0 == Quote("CPU", 1, 5000)
        priced(op) == PricedQuote(q0, PricingEntry(op))
        session(op) == PricingSession(PricingEntry(op))
        rejected(op) == [priced(op) EXCEPT !.status = "rejected"]
        exhausted(op) == [session(op) EXCEPT !.state = "max_turns_reached"]
    IN  {<<q0, "none">>}
        \cup UNION {{<<priced(op), session(op)>>,
                     <<priced(op), Finalized(session(op))>>,
                     <<rejected(op), exhausted(op)>>,
                     <<rejected(op), Finalized(exhausted(op))>>} :
                      op \in OpeningQuotes(q0)}

CountersAnswered(log) ==
    \A i \in 1..Len(log) :
        (log[i].role = "buyer" /\ log[i].action = "counter_offer")
            => i < Len(log) /\ log[i + 1].role = "seller"

\* C29: quote state is committed only at round boundaries.  The step in
\* which the buyer counters and the seller is about to be asked commits
\* nothing, and the persisted negotiation_log never holds a buyer counter
\* without the seller's reply to it, also when a call fails in mid-round.
C29_CommitAtRoundBoundary ==
    [][/\ \A c \in Callers :
             (call[c].pc = "loop" /\ call'[c].pc = "seller") => quotes' = quotes
       /\ \A q \in DOMAIN quotes' : CountersAnswered(quotes'[q].negotiation_log)]_vars

\* a call failed between the buyer's counter and the seller's reply and the
\* persisted quote is still as it was when the round began
C29_Witness ==
    /\ FailedWith(1, {"respond_to_counter_offer"})
    /\ call[1].buyer_calls = 1
    /\ Len(sessions[1].negotiation_history) = 2
    /\ quotes = call[1].round.quotes
    /\ quotes[1].status = "priced"

\* C30: a quote has at most one payment transaction.  A quote that has a
\* transaction gets no further one and keeps its status, a transaction is
\* created only for a quote in status accepted, and no quote ever has more
\* than one.
C30_SinglePayment ==
    [][\A q \in DOMAIN quotes :
          /\ quotes[q].transactions # << >>
                => /\ quotes'[q].transactions = quotes[q].transactions
                   /\ quotes'[q].status = quotes[q].status
          /\ quotes'[q].transactions # quotes[q].transactions
                => quotes[q].status = "accepted"
          /\ Len(quotes'[q].transactions) <= 1]_vars

\* the prices a role offered in a history, in order: the seller's opening
\* quote and counters, or the buyer's counters
Offers(h, role) ==
    SelectSeq(h, LAMBDA e : e.role = role
                            /\ e.action \in {"initial_quote", "counter_offer"})

\* C31: monotonic offers.  In a negotiation driven only by the
\* deterministic fallback the seller's successive prices (the opening
\* quote, then each counter) never increase and the buyer's successive
\* counters never decrease.
C31_MonotonicOffers ==
    \A q \in DOMAIN sessions :
        LET h == sessions[q].negotiation_history
            sell == Offers(h, "seller")
            buy == Offers(h, "buyer")
        IN  FallbackAlone(h) =>
                /\ \A i \in 1..(Len(sell) - 1) : sell[i + 1].price <= sell[i].price
                /\ \A i \in 1..(Len(buy) - 1) : buy[i + 1].price >= buy[i].price

\* C32: the seller's near-miss grace band applies only from round 3 on.  A
\* seller accept by the rule "close enough after several rounds" is never
\* recorded in the first or the second round the engine drives.
C32_GraceBandFromRoundThree ==
    \A q \in DOMAIN sessions :
        LET h == sessions[q].negotiation_history
        IN  \A i \in 1..Len(h) :
                (h[i].role = "seller" /\ h[i].reason = "close_enough")
                    => h[i].turn >= 3

\* C33: the buyer's late-accept rule (seller_price <= 0.95 * max_wtp) fires
\* on the agent's 4th and later decisions and never on decisions 1 to 3;
\* on decisions 1 to 3 a seller price above 0.6 * max_wtp is accepted only
\* when the oracle replied accept.
C33_LateAcceptFromFourth ==
    buyerProbe.phase = "decided" =>
        LET a == buyerProbe.agent
            price == buyerProbe.seller_price
            good == price <= Mul(a.max_wtp, 6, 10)
            within == price <= Mul(a.max_wtp, 95, 100)
        IN  /\ buyerProbe.response.reason \in {"late_accept", "acceptance_criteria"}
                  => a.n >= 4 /\ within
            /\ (a.n >= 4 /\ within /\ ~good)
                  => buyerProbe.response.reason = "late_accept"
            /\ (a.n <= 3 /\ ~good /\ buyerProbe.response.action = "accept")
                  => /\ buyerProbe.response.reason = "llm_accept"
                     /\ buyerProbe.oracle.ok
                     /\ buyerProbe.oracle.action = "accept"

\* the agent's 4th decision accepted, by the late-accept rule, a price
\* above 60% of its budget
C33_Witness ==
    /\ buyerProbe.phase = "decided"
    /\ buyerProbe.agent.n = 4
    /\ buyerProbe.response.reason = "late_accept"
    /\ buyerProbe.seller_price = 9500
    /\ buyerProbe.agent.max_wtp = 10000

\* the counter of the round-0 branch of _generate_strategic_counter_offer
\* (seed max(0.8 * seller_price, 0.5 * max_wtp), then boost and caps)
RoundZeroCounter(self, seller_price) ==
    generate_strategic_counter_offer([self EXCEPT !.n = 0, !.last_offer = None],
                                     seller_price)

\* C34: on the buyer's first decision, when the oracle fails, the fallback
\* counter is the round-0 seed (80% of the seller's price, clamped below
\* the seller's price); the halfway step is used only from the second
\* decision on.
C34_FirstCounterIsSeed ==
    (/\ buyerProbe.phase = "decided"
     /\ buyerProbe.agent.n = 1
     /\ buyerProbe.response.reason = "deterministic")
        => buyerProbe.response.price
              = ClampBuyerCounter(RoundZeroCounter(buyerProbe.agent,
                                                   buyerProbe.seller_price),
                                  buyerProbe.seller_price)

\* the rounds completed in a history: its seller decisions
RoundsCompleted(h) ==
    Len(SelectSeq(h, LAMBDA e : e.role = "seller" /\ e.response))

\* C35: session.round_number never decreases and is incremented exactly once
\* per completed round: over every step of a session's life its increase
\* equals the number of rounds completed in that step.
C35_RoundNumberCountsRounds ==
    [][\A q \in DOMAIN sessions \cap DOMAIN sessions' :
          IsPrefix(sessions[q].negotiation_history,
                   sessions'[q].negotiation_history)
              => sessions'[q].round_number - sessions[q].round_number
                    = RoundsCompleted(sessions'[q].negotiation_history)
                        - RoundsCompleted(sessions[q].negotiation_history)]_vars

\* C36: a session alternates, buyer first in every round: every seller
\* decision in the session history is immediately preceded by a buyer
\* counter_offer of the same turn, and no two buyer entries are adjacent.
C36_StrictAlternation ==
    \A q \in DOMAIN sessions :
        LET h == sessions[q].negotiation_history
        IN  \A i \in 1..Len(h) :
                /\ (h[i].role = "seller" /\ h[i].response)
                      => /\ i > 1
                         /\ h[i - 1].role = "buyer"
                         /\ h[i - 1].action = "counter_offer"
                         /\ h[i - 1].turn = h[i].turn
                /\ (h[i].role = "buyer" /\ i > 1) => h[i - 1].role # "buyer"

\* C37: when the payment block of auto-negotiate fails after the
\* negotiation was accepted, the quote is kept as accepted: the returned
\* quote and the persisted quote both have status accepted and no payment
\* transaction is recorded.
C37_FailedPaymentKeepsAccepted ==
    \A c \in Callers :
        (call[c].op = "auto_negotiate" /\ call[c].pc = "idle"
         /\ call[c].fault # "none")
            => /\ call[c].summary.status = "accepted"
               /\ quotes[call[c].quote_id].status = "accepted"
               /\ quotes[call[c].quote_id].transactions = << >>

\* C38: whenever negotiate returns normally, the session's last_offer
\* equals the quote's price, whatever the outcome and whoever created the
\* session.
C38_LastOfferIsPrice ==
    [][\A c \in Callers :
          (call[c].pc # "idle" /\ ReturnedOk(c)')
              => LET q == call[c].quote_id
                 IN  /\ q \in DOMAIN sessions'
                     /\ sessions'[q].last_offer = quotes'[q].price]_vars

\* the price a log stands at: the buyer's counter when its last entry is a
\* seller accept, else the price of its last seller offer (None without one)
LogPrice(log) ==
    LET sell == Offers(log, "seller")
        buy == Offers(log, "buyer")
    IN  IF log # << >> /\ log[Len(log)].role = "seller"
           /\ log[Len(log)].action = "accept" /\ buy # << >>
        THEN buy[Len(buy)].price
        ELSE IF sell # << >> THEN sell[Len(sell)].price ELSE None

\* C39: in every committed state of a priced (or accepted) quote, price and
\* negotiation_log are in step: the persisted price is the price of the
\* last seller offer in the persisted log, or after a seller accept the
\* buyer's counter recorded there.
C39_PriceMatchesLog ==
    \A q \in DOMAIN quotes :
        quotes[q].status \in {"priced", "accepted"}
            => quotes[q].price = LogPrice(quotes[q].negotiation_log)

====
